---- MODULE Spec2Model ----
(***************************************************************************)
(* A model of todo_list_manager.py: the interactive to-do list session.   *)
(*                                                                         *)
(* Text typed by the user is a sequence of one-character strings, so that  *)
(* strip(), lower() and int() are computed character by character.  A      *)
(* date text in the format YYYY-MM-DD is abbreviated to one digit          *)
(* character naming the day's ordinal ("5" is day 5); any other text fails *)
(* strptime.  A datetime is a number of ticks, TicksPerDay of them to the  *)
(* day; strptime yields midnight, datetime.today() any tick of the day.    *)
(* None (no due date) is the empty text <<>>; a stored due date is never   *)
(* the empty string, so the two are not confused.                          *)
(***************************************************************************)
EXTENDS Integers, Sequences, FiniteSets, TLC

\* Bounds of the model.
MaxTasks == 2
TicksPerDay == 2
MaxViewLen == 2
\* timedelta(days=3) of view_tasks.
DueSoonDays == 3

VARIABLES
    store,      \* the file tasks.json
    tasks,      \* the in-memory collection of main()
    tasksType,  \* the Python type of the loaded collection: "list" or "dict"
    pc,         \* "start", "menu", "result", "crashed", "exited"
    op,         \* the operation the menu dispatched last
    args,       \* what the user typed during that operation
    out,        \* the messages that operation printed, in order
    writes,     \* the number of save_tasks calls of that operation
    visible,    \* the view that operation showed: indices into tasks
    notes       \* the status note of each entry of that view

vars == <<store, tasks, tasksType, pc, op, args, out, writes, visible, notes>>

----------------------------------------------------------------------------
\* Text.

UpperChars == <<"A","B","C","D","E","F","G","H","I","J","K","L","M",
                "N","O","P","Q","R","S","T","U","V","W","X","Y","Z">>
LowerChars == <<"a","b","c","d","e","f","g","h","i","j","k","l","m",
                "n","o","p","q","r","s","t","u","v","w","x","y","z">>
DigitChars == <<"0","1","2","3","4","5","6","7","8","9">>

LowerChar(c) ==
    IF \E i \in 1..Len(UpperChars) : UpperChars[i] = c
    THEN LowerChars[CHOOSE i \in 1..Len(UpperChars) : UpperChars[i] = c]
    ELSE c

lower(s) == [i \in 1..Len(s) |-> LowerChar(s[i])]

RECURSIVE lstrip(_)
lstrip(s) == IF s # <<>> /\ Head(s) = " " THEN lstrip(Tail(s)) ELSE s

RECURSIVE rstrip(_)
rstrip(s) ==
    IF s # <<>> /\ s[Len(s)] = " " THEN rstrip(SubSeq(s, 1, Len(s) - 1)) ELSE s

strip(s) == rstrip(lstrip(s))

IsDigit(c) == \E i \in 1..Len(DigitChars) : DigitChars[i] = c
DigitVal(c) == (CHOOSE i \in 1..Len(DigitChars) : DigitChars[i] = c) - 1
DigitText(n) == <<DigitChars[n + 1]>>

RECURSIVE DecimalVal(_)
DecimalVal(s) ==
    IF s = <<>> THEN 0
    ELSE 10 * DecimalVal(SubSeq(s, 1, Len(s) - 1)) + DigitVal(s[Len(s)])

\* int(text): surrounding blanks are ignored, one sign is allowed, at least one
\* digit is needed; any other text over the characters typed here is a
\* ValueError.
int(s) ==
    LET t == strip(s)
        signed == t # <<>> /\ Head(t) \in {"-", "+"}
        d == IF signed THEN Tail(t) ELSE t
        ok == d # <<>> /\ \A i \in 1..Len(d) : IsDigit(d[i])
    IN  [ok |-> ok,
         val |-> IF ~ok THEN 0
                 ELSE IF signed /\ Head(t) = "-" THEN 0 - DecimalVal(d)
                 ELSE DecimalVal(d)]

\* datetime.strptime(text, "%Y-%m-%d"): midnight of the day, or a ValueError.
strptime(s) ==
    LET ok == Len(s) = 1 /\ IsDigit(s[1])
    IN  [ok |-> ok, val |-> IF ok THEN DigitVal(s[1]) * TicksPerDay ELSE 0]

Low == <<"l","o","w">>
Medium == <<"m","e","d","i","u","m">>
High == <<"h","i","g","h">>
Priorities == {Low, Medium, High}

----------------------------------------------------------------------------
\* The store.

NoFile == [kind |-> "missing", data |-> <<>>]

\* json.load of the file's text: a ValueError for text that is no JSON, else the
\* value the text denotes (a JSON object becomes a dict, an array a list).
json_load(file) ==
    IF file.kind \in {"empty", "garbage"} THEN [ok |-> FALSE, type |-> "none", items |-> <<>>]
    ELSE IF file.kind = "object" THEN [ok |-> TRUE, type |-> "dict", items |-> <<>>]
    ELSE [ok |-> TRUE, type |-> "list", items |-> file.data]

load_tasks(file) ==
    IF file.kind # "missing"
    THEN LET r == json_load(file)
         IN  IF r.ok THEN [type |-> r.type, items |-> r.items]
             ELSE [type |-> "list", items |-> <<>>]
    ELSE [type |-> "list", items |-> <<>>]

\* save_tasks whose write never reaches the file.
save_tasks_lost(ts) == store

\* json.dump of the whole collection over the file.
save_tasks(ts) == [kind |-> "array", data |-> ts]

----------------------------------------------------------------------------
\* The prompts that loop until the input is valid.  A script is what the user
\* types at the successive prompts; the prompt blocks when the script runs out.

RECURSIVE get_due_date(_)
get_due_date(script) ==
    IF script = <<>> THEN [done |-> FALSE, value |-> <<>>, out |-> <<>>]
    ELSE LET date_input == strip(Head(script))
         IN  IF date_input = <<>> THEN [done |-> TRUE, value |-> <<>>, out |-> <<>>]
             ELSE IF strptime(date_input).ok
             THEN [done |-> TRUE, value |-> date_input, out |-> <<>>]
             ELSE LET r == get_due_date(Tail(script))
                  IN  [r EXCEPT !.out = <<"Invalid date format">> \o @]

RECURSIVE get_priority(_)
get_priority(script) ==
    IF script = <<>> THEN [done |-> FALSE, value |-> <<>>, out |-> <<>>]
    ELSE LET typed == lower(strip(Head(script)))
             priority == IF typed = <<>> THEN Medium ELSE typed
         IN  IF priority \in Priorities
             THEN [done |-> TRUE, value |-> priority, out |-> <<>>]
             ELSE LET r == get_priority(Tail(script))
                  IN  [r EXCEPT !.out = <<"Invalid priority">> \o @]

----------------------------------------------------------------------------
\* What the user may type.

NoArgs == [sel |-> <<>>, description |-> <<>>, due |-> <<>>, priority |-> <<>>,
           confirm |-> <<>>, filter_mode |-> "all", now |-> 0]

DescInputs == {<<" ">>, <<" ", "a">>}
DueScripts == {<< <<>> >>, << <<" ", "5">> >>, << <<"x">>, <<"5">> >>}
PriorityScripts == {<< <<>> >>, << <<" ", "H", "I", "G", "H">> >>, << <<"u","r","g","e","n","t">>, <<>> >>}
PriorityInputs == {<<>>, <<"H", "i", "g", "h", " ">>, <<"u","r","g","e","n","t">>}
SelInputs == {DigitText(n) : n \in 0..(MaxTasks + 1)} \cup {<<"x">>, <<" ", "1">>, <<"-", "1">>}
ConfirmInputs == {<<"y">>, <<"Y">>, <<"n">>}

----------------------------------------------------------------------------
\* Tasks.

\* The task dict of add_task with the wrong initial status.
NewTaskCompleted(description, due_date, priority) ==
    [description |-> description, due_date |-> due_date,
     status |-> "completed", priority |-> priority]

\* Lines 71-76: the task add_task builds.
NewTask(description, due_date, priority) ==
    [description |-> description, due_date |-> due_date,
     status |-> "pending", priority |-> priority]

\* A stored task record.
Task(description, due_date, status, priority) ==
    [description |-> description, due_date |-> due_date,
     status |-> status, priority |-> priority]

\* The arrays of task records a session may find in the store at startup: none,
\* one task, a pending and a completed one, and three tasks left by an earlier
\* session of which the first and the last have the same fields.
StartArrays ==
    {<<>>,
     <<Task(<<"a">>, <<"5">>, "pending", Medium)>>,
     <<Task(<<"a">>, <<>>, "pending", High), Task(<<"a">>, <<"5">>, "completed", Medium)>>,
     <<Task(<<"a">>, <<>>, "pending", Medium), Task(<<"a">>, <<"5">>, "pending", High),
       Task(<<"a">>, <<>>, "pending", Medium)>>}

StartStores ==
    {NoFile, [kind |-> "empty", data |-> <<>>], [kind |-> "garbage", data |-> <<>>],
     [kind |-> "object", data |-> <<>>]}
    \cup {[kind |-> "array", data |-> a] : a \in StartArrays}

Init ==
    /\ store \in StartStores
    /\ tasks = <<>>
    /\ tasksType = "list"
    /\ pc = "start"
    /\ op = "none"
    /\ args = NoArgs
    /\ out = <<>>
    /\ writes = 0
    /\ visible = <<>>
    /\ notes = <<>>

\* main(), line 226: the store is read once.
Load ==
    /\ pc = "start"
    /\ LET r == load_tasks(store)
       IN  /\ tasks' = r.items
           /\ tasksType' = r.type
    /\ pc' = "result"
    /\ op' = "load"
    /\ UNCHANGED <<store, args, out, writes, visible, notes>>

\* The loop of main() comes back to the menu prompt.
Prompt ==
    /\ pc = "result"
    /\ pc' = "menu"
    /\ op' = "none"
    /\ args' = NoArgs
    /\ out' = <<>>
    /\ writes' = 0
    /\ visible' = <<>>
    /\ notes' = <<>>
    /\ UNCHANGED <<store, tasks, tasksType>>

\* Choice 9.
Exit ==
    /\ pc = "menu"
    /\ pc' = "exited"
    /\ op' = "exit"
    /\ out' = <<"Goodbye">>
    /\ UNCHANGED <<store, tasks, tasksType, args, writes, visible, notes>>

\* Choice 1.  tasks.append raises AttributeError when the loaded value is a dict.
add_task ==
    /\ pc = "menu"
    /\ Len(tasks) < MaxTasks
    /\ \E description \in DescInputs, due \in DueScripts, priority \in PriorityScripts :
         LET d == get_due_date(due)
             p == get_priority(priority)
             task == NewTask(strip(description), d.value, p.value)
         IN  /\ d.done /\ p.done
             /\ op' = "add"
             /\ args' = [NoArgs EXCEPT !.description = description, !.due = due,
                                       !.priority = priority]
             /\ visible' = <<>>
             /\ notes' = <<>>
             /\ IF tasksType = "list"
                THEN /\ tasks' = Append(tasks, task)
                     /\ store' = save_tasks(tasks')
                     /\ writes' = 1
                     /\ out' = d.out \o p.out \o <<"Task added">>
                     /\ pc' = "result"
                ELSE /\ out' = d.out \o p.out
                     /\ writes' = 0
                     /\ pc' = "crashed"
                     /\ UNCHANGED <<tasks, store>>
             /\ UNCHANGED tasksType

----------------------------------------------------------------------------
\* view_tasks.

\* The times datetime.today() may return.
Days == 1..6
AllTimes == {d * TicksPerDay + k : d \in Days, k \in 0..(TicksPerDay - 1)}
SessionTimes == {5 * TicksPerDay + 1, 2 * TicksPerDay}
Filters == {"all", "completed", "pending", "due_soon"}

\* The due_soon test with a lower bound at today, which drops overdue tasks.
due_soon_not_past(due, today) ==
    IF due # <<>>
    THEN ~(strptime(due).val > today + DueSoonDays * TicksPerDay)
         /\ ~(strptime(due).val < today)
    ELSE FALSE

\* Lines 108-114: a dated task not later than three days from now.
due_soon(due, today) ==
    IF due # <<>>
    THEN ~(strptime(due).val > today + DueSoonDays * TicksPerDay)
    ELSE FALSE

\* The filter conditions of the loop, lines 99-116: whether the task is appended.
is_visible(task, filter_mode, today) ==
    IF filter_mode = "completed" /\ task.status # "completed" THEN FALSE
    ELSE IF filter_mode = "pending" /\ task.status # "pending" THEN FALSE
    ELSE IF filter_mode = "due_soon" THEN due_soon(task.due_date, today)
    ELSE TRUE

\* The warning note of a listed task, lines 129-136.
status_note(task, today) ==
    IF task.due_date # <<>>
    THEN LET due_date_obj == strptime(task.due_date).val
         IN  IF due_date_obj < today THEN "OVERDUE"
             ELSE IF due_date_obj <= today + DueSoonDays * TicksPerDay THEN "Due Soon"
             ELSE ""
    ELSE ""

\* view_tasks(tasks, filter_mode, return_filtered=True) at the time today: the
\* entries listed (references into tasks, here positions), their notes, and the
\* message printed instead of a listing.
view_tasks(ts, filter_mode, today) ==
    IF ts = <<>> THEN [visible |-> <<>>, notes |-> <<>>, out |-> <<"No tasks found">>]
    ELSE LET vis == SelectSeq([i \in 1..Len(ts) |-> i],
                              LAMBDA i : is_visible(ts[i], filter_mode, today))
         IN  IF vis = <<>>
             THEN [visible |-> <<>>, notes |-> <<>>, out |-> <<"No tasks match this filter">>]
             ELSE [visible |-> vis,
                   notes |-> [k \in 1..Len(vis) |-> status_note(ts[vis[k]], today)],
                   out |-> <<>>]

\* A time for the listings whose filter does not read the date.
SomeTime == CHOOSE t \in SessionTimes : TRUE

\* Choices 2 to 5, at the times in T.
ViewAt(T) ==
    /\ pc = "menu"
    /\ \E filter_mode \in Filters, today \in T :
         LET shown == view_tasks(tasks, filter_mode, today)
         IN  /\ op' = "view"
             /\ args' = [NoArgs EXCEPT !.filter_mode = filter_mode, !.now = today]
             /\ visible' = shown.visible
             /\ notes' = shown.notes
             /\ out' = shown.out
             /\ writes' = 0
             /\ pc' = "result"
             /\ UNCHANGED <<store, tasks, tasksType>>

View == ViewAt(SessionTimes)

----------------------------------------------------------------------------
\* The operations that select an entry of a view.

in_range(idx, n) == 0 <= idx /\ idx < n

\* A handler returns to main() having left the collection as ts, saved or not.
Return(o, a, ts, saved, vis, msgs) ==
    /\ op' = o
    /\ args' = a
    /\ tasks' = ts
    /\ IF saved THEN store' = save_tasks(ts) /\ writes' = 1
                ELSE store' = store /\ writes' = 0
    /\ visible' = vis
    /\ notes' = <<>>
    /\ out' = msgs
    /\ pc' = "result"
    /\ UNCHANGED tasksType

\* Choice 6.
mark_completed ==
    /\ pc = "menu"
    /\ LET shown == view_tasks(tasks, "pending", SomeTime)
       IN  IF shown.visible = <<>>
           THEN Return("mark", NoArgs, tasks, FALSE, <<>>, shown.out)
           ELSE \E sel \in SelInputs :
                  LET n == int(sel)
                      idx == n.val - 1
                      a == [NoArgs EXCEPT !.sel = sel]
                  IN  IF ~n.ok
                      THEN Return("mark", a, tasks, FALSE, shown.visible,
                                  <<"Please enter a valid number">>)
                      ELSE IF in_range(idx, Len(shown.visible))
                      THEN Return("mark", a,
                                  [tasks EXCEPT ![shown.visible[idx + 1]].status = "completed"],
                                  TRUE, shown.visible, <<"Task marked as completed">>)
                      ELSE Return("mark", a, tasks, FALSE, shown.visible,
                                  <<"Invalid task number">>)

\* The assignments of edit_task without the guard on a blank description.
edit_fields_overwrite(task, new_desc, new_due, new_priority) ==
    [task EXCEPT !.description = new_desc,
                 !.due_date = IF new_due # <<>> THEN new_due ELSE @,
                 !.priority = IF new_priority \in Priorities THEN new_priority ELSE @]

\* Lines 181-186: the fields of the task that the replacements overwrite.
edit_fields(task, new_desc, new_due, new_priority) ==
    [task EXCEPT !.description = IF new_desc # <<>> THEN new_desc ELSE @,
                 !.due_date = IF new_due # <<>> THEN new_due ELSE @,
                 !.priority = IF new_priority \in Priorities THEN new_priority ELSE @]

\* Choice 7.
edit_task ==
    /\ pc = "menu"
    /\ LET shown == view_tasks(tasks, "all", SomeTime)
       IN  IF shown.visible = <<>>
           THEN Return("edit", NoArgs, tasks, FALSE, <<>>, shown.out)
           ELSE \E sel \in SelInputs :
                  LET n == int(sel)
                      idx == n.val - 1
                      a == [NoArgs EXCEPT !.sel = sel]
                  IN  IF ~n.ok
                      THEN Return("edit", a, tasks, FALSE, shown.visible,
                                  <<"Please enter a valid number">>)
                      ELSE IF in_range(idx, Len(shown.visible))
                      THEN \E description \in DescInputs, due \in DueScripts,
                              priority \in PriorityInputs :
                             LET i == shown.visible[idx + 1]
                                 new_desc == strip(description)
                                 d == get_due_date(due)
                                 new_priority == lower(strip(priority))
                             IN  /\ d.done
                                 /\ Return("edit",
                                           [a EXCEPT !.description = description, !.due = due,
                                                     !.priority = <<priority>>],
                                           [tasks EXCEPT ![i] = edit_fields(tasks[i], new_desc,
                                                                            d.value, new_priority)],
                                           TRUE, shown.visible, d.out \o <<"Task updated">>)
                      ELSE Return("edit", a, tasks, FALSE, shown.visible,
                                  <<"Invalid task number">>)

\* list.remove(x): the first entry equal to x goes (== on dicts compares the
\* fields, not the identity).
list_remove(ts, x) ==
    LET j == CHOOSE k \in 1..Len(ts) : ts[k] = x /\ \A m \in 1..(k - 1) : ts[m] # x
    IN  SubSeq(ts, 1, j - 1) \o SubSeq(ts, j + 1, Len(ts))

\* The confirmation test that takes any answer for a yes.
confirmed_always(confirm) == TRUE

\* Line 207-208: the answer, lowered and not stripped, is "y".
confirmed(confirm) == lower(confirm) = <<"y">>

\* Choice 8.
delete_task ==
    /\ pc = "menu"
    /\ LET shown == view_tasks(tasks, "all", SomeTime)
       IN  IF shown.visible = <<>>
           THEN Return("delete", NoArgs, tasks, FALSE, <<>>, shown.out)
           ELSE \E sel \in SelInputs :
                  LET n == int(sel)
                      idx == n.val - 1
                      a == [NoArgs EXCEPT !.sel = sel]
                  IN  IF ~n.ok
                      THEN Return("delete", a, tasks, FALSE, shown.visible,
                                  <<"Please enter a valid number">>)
                      ELSE IF in_range(idx, Len(shown.visible))
                      THEN \E confirm \in ConfirmInputs :
                             LET removed == tasks[shown.visible[idx + 1]]
                                 b == [a EXCEPT !.confirm = confirm]
                             IN  IF confirmed(confirm)
                                 THEN Return("delete", b, list_remove(tasks, removed), TRUE,
                                             shown.visible, <<"Task deleted">>)
                                 ELSE Return("delete", b, tasks, FALSE, shown.visible,
                                             <<"Deletion cancelled">>)
                      ELSE Return("delete", a, tasks, FALSE, shown.visible,
                                  <<"Invalid task number">>)

Next ==
    \/ Load
    \/ Prompt
    \/ Exit
    \/ add_task
    \/ View
    \/ mark_completed
    \/ edit_task
    \/ delete_task

Spec == Init /\ [][Next]_vars

\* A session that starts on a missing or an empty store.
InitFresh == Init /\ store.kind \in {"missing", "empty"}

SpecFresh == InitFresh /\ [][Next]_vars

----------------------------------------------------------------------------
\* view_tasks as a function of the collection and the time: every collection of
\* at most MaxViewLen tasks, viewed at every time.

ViewDues == {<<>>, <<"4">>, <<"5">>, <<"9">>}
ViewTasks == {Task(<<"a">>, d, st, Medium) : d \in ViewDues, st \in {"pending", "completed"}}
ViewCollections == UNION {[1..n -> ViewTasks] : n \in 0..MaxViewLen}

InitView ==
    /\ tasks \in ViewCollections
    /\ store = [kind |-> "array", data |-> tasks]
    /\ tasksType = "list"
    /\ pc = "menu"
    /\ op = "none"
    /\ args = NoArgs
    /\ out = <<>>
    /\ writes = 0
    /\ visible = <<>>
    /\ notes = <<>>

ViewAny == ViewAt(AllTimes)

NextView == ViewAny \/ Prompt

SpecView == InitView /\ [][NextView]_vars
----------------------------------------------------------------------------
\* The properties.

Range(f) == {f[i] : i \in DOMAIN f}
RemoveAt(ts, i) == SubSeq(ts, 1, i - 1) \o SubSeq(ts, i + 1, Len(ts))
Indices(ts) == [i \in 1..Len(ts) |-> i]
PendingIndices(ts) == SelectSeq(Indices(ts), LAMBDA i : ts[i].status = "pending")
\* The calendar day a date text names, and the calendar day of a time.
DayOf(text) == DigitVal(text[1])
Today(now) == now \div TicksPerDay

Succeeded ==
    /\ pc = "result"
    /\ op \in {"add", "mark", "edit", "delete"}
    /\ out # <<>>
    /\ out[Len(out)] \in {"Task added", "Task marked as completed", "Task updated",
                          "Task deleted"}
InSync == store = [kind |-> "array", data |-> tasks]

\* C1: after every successful mutating operation the store holds exactly the
\* in-memory collection, in order, and once it does it does so at every later
\* point of the session.
C1_StoreHoldsCollection == [][(Succeeded' => InSync') /\ (InSync => InSync')]_vars

C1_Witness ==
    /\ Succeeded /\ op = "delete" /\ InSync /\ Len(tasks) = 2

\* C2: a confirmed Delete with the valid 1-based index i leaves the collection
\* with its i-th entry removed and the others in their order, duplicates or not.
C2_DeleteRemovesSelected ==
    [][(pc' = "result" /\ op' = "delete" /\ out' = <<"Task deleted">>)
         => tasks' = RemoveAt(tasks, int(args'.sel).val)]_vars

\* The size of the view MarkCompleted, Edit and Delete select from.
ViewSize(o, ts) == IF o = "mark" THEN Len(PendingIndices(ts)) ELSE Len(ts)
\* The selection typed picks no entry of that view, or the delete was declined.
NoSuccess(o, a, ts) ==
    \/ ViewSize(o, ts) = 0
    \/ ~int(a.sel).ok
    \/ int(a.sel).val < 1
    \/ int(a.sel).val > ViewSize(o, ts)
    \/ o = "delete" /\ lower(a.confirm) # <<"y">>

\* C3: MarkCompleted, Edit or Delete that ends without success (non-numeric or
\* out-of-range selection, empty view, declined confirmation) leaves the
\* collection as it was and writes nothing to the store.
C3_FailureChangesNothing ==
    [][(pc' = "result" /\ op' \in {"mark", "edit", "delete"}
           /\ (NoSuccess(op', args', tasks) \/ ~Succeeded'))
         => (tasks' = tasks /\ store' = store /\ writes' = 0 /\ ~Succeeded')]_vars

C3_Witness ==
    /\ pc = "result" /\ op = "delete" /\ out = <<"Deletion cancelled">>
    /\ args.confirm = <<"n">> /\ Len(tasks) = 2 /\ writes = 0

BadPriority(text) == strip(text) # <<>> /\ lower(strip(text)) \notin Priorities

\* C4: in Add and in Edit a priority input that is not blank and not one of
\* low, medium, high (in any case) is reported, and the operation is re-prompted
\* or aborted without changing any task.
C4_BadPriorityRejected ==
    [][(pc' = "result" /\ op' \in {"add", "edit"}
           /\ \E i \in 1..Len(args'.priority) : BadPriority(args'.priority[i]))
         => /\ "Invalid priority" \in Range(out')
            /\ (Len(args'.priority) > 1 \/ tasks' = tasks)]_vars

\* C5: whatever the store holds at startup, load returns without raising, and
\* returns the empty list unless the store holds an array of task records.
C5_LoadEmptyUnlessArray ==
    (pc = "result" /\ op = "load")
      => /\ tasksType = "list"
         /\ tasks = (IF store.kind = "array" THEN store.data ELSE <<>>)

\* C6: a listed task due on a day d with today <= d <= today + 3 is noted
\* "Due Soon" at any time of the day, and "OVERDUE" is noted only when d is
\* before today.
C6_DueTodayIsDueSoon ==
    (pc = "result" /\ op = "view")
      => \A k \in 1..Len(visible) :
           LET due == tasks[visible[k]].due_date
               today == Today(args.now)
           IN  due # <<>> =>
                 /\ (today <= DayOf(due) /\ DayOf(due) <= today + DueSoonDays)
                      => notes[k] = "Due Soon"
                 /\ notes[k] = "OVERDUE" => DayOf(due) < today

\* The positions the due_soon filter is to list.
DueSoonIndices(ts, now) ==
    SelectSeq(Indices(ts),
              LAMBDA i : ts[i].due_date # <<>>
                         /\ DayOf(ts[i].due_date) <= Today(now) + DueSoonDays)

\* C7: the due_soon view lists, in collection order, exactly the tasks that have
\* a due date on or before today + 3 days, past dates and completed tasks
\* included, and leaves the collection as it was.
C7_DueSoonFilter ==
    [][(pc' = "result" /\ op' = "view" /\ args'.filter_mode = "due_soon")
         => /\ visible' = DueSoonIndices(tasks, args'.now)
            /\ tasks' = tasks
            /\ store' = store]_vars

C7_Witness ==
    /\ pc = "result" /\ op = "view" /\ args.filter_mode = "due_soon"
    /\ Len(tasks) = 2 /\ visible = <<2>>
    /\ tasks[2].status = "completed" /\ tasks[2].due_date # <<>>
    /\ DayOf(tasks[2].due_date) < Today(args.now)
    /\ tasks[1].due_date # <<>>

\* C8: in a session started on a missing or empty store every task of the
\* collection has a non-empty description.
C8_DescriptionNonEmpty ==
    \A i \in 1..Len(tasks) : tasks[i].description # <<>>

\* What Edit is to leave in the place of the task: a field is replaced when its
\* replacement, as finally accepted, is non-blank and valid.
Edited(task, a) ==
    LET new_desc == strip(a.description)
        new_due == strip(a.due[Len(a.due)])
        new_priority == lower(strip(a.priority[1]))
    IN  Task(IF new_desc # <<>> THEN new_desc ELSE task.description,
             IF new_due # <<>> /\ strptime(new_due).ok THEN new_due ELSE task.due_date,
             task.status,
             IF new_priority \in Priorities THEN new_priority ELSE task.priority)

\* C9: Edit with a valid index replaces, on the selected task only, the fields
\* whose replacement is non-blank and valid, keeps the others and the status,
\* leaves every other task and the order alone, and writes the store once.
C9_EditFrame ==
    [][(pc' = "result" /\ op' = "edit" /\ int(args'.sel).ok
           /\ 1 <= int(args'.sel).val /\ int(args'.sel).val <= Len(tasks))
         => LET i == int(args'.sel).val
            IN  /\ tasks' = [tasks EXCEPT ![i] = Edited(tasks[i], args')]
                /\ writes' = 1
                /\ store' = [kind |-> "array", data |-> tasks']]_vars

C9_Witness ==
    /\ pc = "result" /\ op = "edit" /\ out = <<"Task updated">>
    /\ strip(args.description) = <<>> /\ args.due = << <<>> >> /\ args.priority = << <<>> >>
    /\ writes = 1 /\ Len(tasks) = 2

\* C10: a task is created pending, only MarkCompleted changes a status, from
\* pending to completed and on the selected entry of the pending view, and a
\* completed task stays completed until it is deleted.
C10_StatusMonotonic ==
    [][/\ (pc' = "result" /\ op' = "add")
            => /\ Len(tasks') = Len(tasks) + 1
               /\ SubSeq(tasks', 1, Len(tasks)) = tasks
               /\ tasks'[Len(tasks')].status = "pending"
       /\ (pc' = "result" /\ op' = "delete")
            => (tasks' = tasks \/ \E j \in 1..Len(tasks) : tasks' = RemoveAt(tasks, j))
       /\ ~(pc' = "result" /\ op' \in {"add", "delete", "load"})
            => /\ Len(tasks') = Len(tasks)
               /\ \A i \in 1..Len(tasks) :
                    /\ tasks[i].status = "completed" => tasks'[i].status = "completed"
                    /\ tasks'[i].status # tasks[i].status
                         => /\ op' = "mark"
                            /\ int(args'.sel).ok
                            /\ int(args'.sel).val \in 1..Len(PendingIndices(tasks))
                            /\ i = PendingIndices(tasks)[int(args'.sel).val]]_vars

C10_Witness ==
    /\ pc = "result" /\ op = "mark" /\ out = <<"Task marked as completed">>
    /\ args.sel = <<"2">> /\ Len(tasks) = 3
    /\ tasks[1].status = "completed" /\ tasks[3].status = "completed"
====
